---- MODULE Spec2Model ----
(***************************************************************************)
(* The health & fitness dashboard of src/streamlit_app.py as a state       *)
(* machine: the cached loader, the script that Streamlit re-executes from  *)
(* top to bottom after every interaction, the widgets' session state, and  *)
(* the derived tables handed to the charts.                                 *)
(*                                                                         *)
(* A table (DataFrame) is a sequence of records.  A missing cell (pandas   *)
(* NaN) is the string NaN in a label column; an undefined mean is a mean    *)
(* over n = 0 samples.  A mean is kept exact as [sum, n].                   *)
(***************************************************************************)
EXTENDS Integers, Sequences, FiniteSets, TLC

VARIABLES
    file,                \* rows of cleaned_health_fitness_data.csv
    observed_default,    \* groupby's default for observed= in the installed pandas
    cache,               \* st.cache_data entry of load_data: <<>> or <<table>>
    fileReads,           \* number of pd.read_csv calls so far
    df,                  \* the script's df
    pc,                  \* last statement group the current script run executed
    selected,            \* option_menu state (page)
    gender,              \* st.radio("Select Gender") state
    intensity_sankey,    \* first st.selectbox("Select Intensity Level") state
    intensity_age,       \* st.selectbox(key="intensity_level_selectbox_age_category")
    trigger,             \* the interaction that started the current script run
    \* What the page shows for each chart: <<>> (nothing) or <<data>>.
    fig_line,            \* step 1: activity_frequency
    fig_dual_line,       \* step 2: activity_frequency (by gender)
    fig_bar,             \* step 3: top_activities
    fig_scatter,         \* step 5: the scatter of filtered_df, or the warning
    fig_sankey,          \* step 6: node labels and links
    fig_age_activity     \* step 7: age_activity_stats

vars == <<file, observed_default, cache, fileReads, df, pc, selected, gender,
          intensity_sankey, intensity_age, trigger, fig_line, fig_dual_line,
          fig_bar, fig_scatter, fig_sankey, fig_age_activity>>

-----------------------------------------------------------------------------
(* Bounds of the model and the input alphabet.                              *)

MaxRows == 2

\* The values a cell of the input file is drawn from.  "Zumba" is outside
\* activity_order, "Other" is a gender the loader's mapping does not list.
InputActivities == <<"Running", "Cycling", "Zumba">>
InputGenders == <<"F", "M", "Other">>
InputIntensities == <<"Low", "High">>
InputAges == <<"Adult">>
InputDurations == <<30>>
InputCalories == <<150, 300>>

Range(s) == {s[i] : i \in DOMAIN s}
IndexOf(s, x) == CHOOSE i \in DOMAIN s : s[i] = x

Records ==
    [activity_type : Range(InputActivities), gender : Range(InputGenders),
     intensity : Range(InputIntensities), age_category : Range(InputAges),
     duration_minutes : Range(InputDurations),
     calories_burned : Range(InputCalories)]

\* No derivation below depends on the order of the file's rows beyond the
\* order of the scatter's points, so the files are enumerated up to a
\* permutation of their rows: rows in non-decreasing RecordRank.
RecordRank(r) ==
    ((((IndexOf(InputActivities, r.activity_type) * 4
        + IndexOf(InputGenders, r.gender)) * 4
        + IndexOf(InputIntensities, r.intensity)) * 4
        + IndexOf(InputAges, r.age_category)) * 4
        + IndexOf(InputDurations, r.duration_minutes)) * 4
        + IndexOf(InputCalories, r.calories_burned)

Files ==
    {t \in UNION {[1..n -> Records] : n \in 0..MaxRows} :
        \A i \in 1..(Len(t) - 1) : RecordRank(t[i]) <= RecordRank(t[i + 1])}

-----------------------------------------------------------------------------
(* Program constants.                                                       *)

NaN == "NaN"

activity_order ==
    <<"Running", "Cycling", "Swimming", "Yoga", "Walking", "HIIT", "Dancing",
      "Weight Training", "Tennis", "Basketball">>

PageOptions == <<"Home", "Explore Data">>
GenderOptions == <<"Male", "Female">>
IntensityOptions == <<"Low", "Medium", "High">>

\* Every label a gender / age_category cell can hold, in Python string order
\* (the order a sorted groupby lists its keys in).
GenderLexOrder == <<"F", "Female", "M", "Male", "Other">>
AgeLexOrder == <<"Adult", "Senior">>

-----------------------------------------------------------------------------
(* Sequence helpers.                                                        *)

\* pandas unique(): the distinct values in order of first occurrence.
Unique(s) ==
    LET first == {i \in DOMAIN s : \A j \in 1..(i - 1) : s[j] # s[i]}
        rank(i) == Cardinality({j \in first : j <= i})
    IN  [k \in 1..Cardinality(first) |-> s[CHOOSE i \in first : rank(i) = k]]

\* Stable sort of s: before holds the pairs <<i, j>> for which s[i] must come
\* ahead of s[j]; rows that neither way must, keep their order.
StableSort(s, before) ==
    LET pos(i) == Cardinality({j \in DOMAIN s : <<j, i>> \in before})
                  + Cardinality({j \in 1..i : <<j, i>> \notin before /\ <<i, j>> \notin before})
    IN  [p \in 1..Len(s) |-> s[CHOOSE i \in DOMAIN s : pos(i) = p]]

\* The rows of s1 x s2, s1 major (MultiIndex.from_product).
Product(s1, s2) ==
    [k \in 1..(Len(s1) * Len(s2)) |->
        <<s1[((k - 1) \div Len(s2)) + 1], s2[((k - 1) % Len(s2)) + 1]>>]

CatIndex(a) == CHOOSE i \in DOMAIN activity_order : activity_order[i] = a

RECURSIVE SumOver(_, _)
SumOver(t, idx) ==
    IF idx = {} THEN 0
    ELSE LET i == CHOOSE j \in idx : TRUE
         IN  t[i].calories_burned + SumOver(t, idx \ {i})

RECURSIVE SumDuration(_, _)
SumDuration(t, idx) ==
    IF idx = {} THEN 0
    ELSE LET i == CHOOSE j \in idx : TRUE
         IN  t[i].duration_minutes + SumDuration(t, idx \ {i})

\* "mean" over the rows idx of t: undefined (NaN) when idx is empty.
MeanCalories(t, idx) == [sum |-> SumOver(t, idx), n |-> Cardinality(idx)]
MeanDuration(t, idx) == [sum |-> SumDuration(t, idx), n |-> Cardinality(idx)]
IsNaNMean(m) == m.n = 0
\* m1 > m2 for defined means
MeanGreater(m1, m2) == m1.sum * m2.n > m2.sum * m1.n

-----------------------------------------------------------------------------
(* Dataset loader.                                                          *)

\* Variants of the mapping: what Series.replace would do, and a dict that lacks
\* the "M" entry.
GenderMapReplace(g) ==
    IF g = "F" THEN "Female" ELSE IF g = "M" THEN "Male" ELSE g

GenderMapWithoutM(g) == IF g = "F" THEN "Female" ELSE NaN

\* Series.map with a dict: a value that is no key of the dict maps to NaN.
GenderMap(g) ==
    IF g = "F" THEN "Female" ELSE IF g = "M" THEN "Male" ELSE NaN

\* The body of load_data: read the file, map the gender column.
load_data_body(rows) ==
    [i \in DOMAIN rows |-> [rows[i] EXCEPT !.gender = GenderMap(@)]]

\* pd.Categorical(values, categories=activity_order): a value outside the
\* categories becomes NaN.
Categorical(a) == IF a \in Range(activity_order) THEN a ELSE NaN

SetCategories(t) ==
    [i \in DOMAIN t |-> [t[i] EXCEPT !.activity_type = Categorical(@)]]

-----------------------------------------------------------------------------
(* Aggregation pipeline.                                                    *)

RowsWith(t, a) == {i \in DOMAIN t : t[i].activity_type = a}

\* Step 1, value_counts() of the categorical column: one row per category
\* (NaN dropped), most frequent first, then the rows with frequency > 0.
value_counts(t) ==
    LET counts == [i \in DOMAIN activity_order |->
                      [activity_type |-> activity_order[i],
                       frequency |-> Cardinality(RowsWith(t, activity_order[i]))]]
    IN  StableSort(counts,
                   {ij \in (DOMAIN counts) \X (DOMAIN counts) :
                       counts[ij[1]].frequency > counts[ij[2]].frequency})

\* Variant: the frequency > 0 filter left out.
KeepZeroFrequency(rows) == rows

DropZeroFrequency(rows) == SelectSeq(rows, LAMBDA r : r.frequency > 0)

activity_frequency_step1(t) == DropZeroFrequency(value_counts(t))

\* The keys of groupby(["activity_type", "gender"]) in result order.  NaN keys
\* are dropped.  observed=True keeps the combinations that occur; observed=False
\* lists every category of the categorical with every gender in the column.
GenderLevels(t) ==
    SelectSeq(GenderLexOrder,
              LAMBDA g : g # NaN /\ \E i \in DOMAIN t : t[i].gender = g)

ActivityGenderRows(t, a, g) ==
    {i \in DOMAIN t : t[i].activity_type = a /\ t[i].gender = g}

ActivityGenderKeys(t, observed) ==
    IF observed
    THEN SelectSeq(Product(activity_order, GenderLexOrder),
                   LAMBDA k : ActivityGenderRows(t, k[1], k[2]) # {})
    ELSE Product(activity_order, GenderLevels(t))

\* Step 2
frequency_by_gender(t, observed) ==
    LET keys == ActivityGenderKeys(t, observed)
    IN  [k \in DOMAIN keys |->
            [activity_type |-> keys[k][1], gender |-> keys[k][2],
             frequency |-> Cardinality(ActivityGenderRows(t, keys[k][1], keys[k][2]))]]

\* Step 3: groupby("activity_type", observed=True) with the two means.
ObservedActivities(t) == SelectSeq(activity_order, LAMBDA a : RowsWith(t, a) # {})

activity_stats(t) ==
    LET keys == ObservedActivities(t)
    IN  [k \in DOMAIN keys |->
            [activity_type |-> keys[k],
             avg_calories_burned |-> MeanCalories(t, RowsWith(t, keys[k])),
             avg_duration |-> MeanDuration(t, RowsWith(t, keys[k]))]]

\* Variant: ascending=True.
sort_values_ascending(rows) ==
    StableSort(rows,
        {ij \in (DOMAIN rows) \X (DOMAIN rows) :
            LET x == rows[ij[1]].avg_calories_burned
                y == rows[ij[2]].avg_calories_burned
            IN  ~IsNaNMean(x) /\ (IsNaNMean(y) \/ MeanGreater(y, x))})

\* sort_values("avg_calories_burned", ascending=False): larger mean first, NaN
\* last; rows with equal means keep their order (at most ten rows, which numpy
\* sorts by insertion).
sort_values_descending(rows) ==
    StableSort(rows,
        {ij \in (DOMAIN rows) \X (DOMAIN rows) :
            LET x == rows[ij[1]].avg_calories_burned
                y == rows[ij[2]].avg_calories_burned
            IN  ~IsNaNMean(x) /\ (IsNaNMean(y) \/ MeanGreater(x, y))})

dropna(rows) ==
    SelectSeq(rows, LAMBDA r : /\ r.activity_type # NaN
                               /\ ~IsNaNMean(r.avg_calories_burned)
                               /\ ~IsNaNMean(r.avg_duration))

top_activities(t) == dropna(sort_values_descending(activity_stats(t)))

\* Step 5: df[df["gender"] == g].sort_values(by="activity_type"): categories in
\* their declared order, NaN last.
ActivityBefore(x, y) ==
    /\ x.activity_type # NaN
    /\ \/ y.activity_type = NaN
       \/ CatIndex(x.activity_type) < CatIndex(y.activity_type)

filtered_df(t, g) ==
    LET rows == SelectSeq(t, LAMBDA r : r.gender = g)
    IN  StableSort(rows,
                   {ij \in (DOMAIN rows) \X (DOMAIN rows) :
                       ActivityBefore(rows[ij[1]], rows[ij[2]])})

\* Variant: the chart drawn without the emptiness test.
scatter_view_unguarded(t, g) == [kind |-> "plotly_chart", rows |-> filtered_df(t, g)]

\* if not filtered_df.empty: plotly_chart(fig_scatter) else: st.warning(...)
scatter_view(t, g) ==
    IF filtered_df(t, g) # <<>>
    THEN [kind |-> "plotly_chart", rows |-> filtered_df(t, g)]
    ELSE [kind |-> "warning", rows |-> <<>>]

\* Steps 6 and 7 filter on the selected intensity.
WithIntensity(t, level) == SelectSeq(t, LAMBDA r : r.intensity = level)

\* Step 6: groupby(["activity_type", "gender"]).agg({"calories_burned": "mean"})
sankey_summary(t, observed) ==
    LET keys == ActivityGenderKeys(t, observed)
    IN  [k \in DOMAIN keys |->
            [activity_type |-> keys[k][1], gender |-> keys[k][2],
             calories_burned |->
                 MeanCalories(t, ActivityGenderRows(t, keys[k][1], keys[k][2]))]]

Column(rows, c) == [i \in DOMAIN rows |-> rows[i][c]]

\* {label: i for i, label in enumerate(all_labels)}: a label listed twice keeps
\* its last position.
label_indices(labels) ==
    [l \in Range(labels) |->
        (CHOOSE i \in DOMAIN labels :
            labels[i] = l /\ \A j \in DOMAIN labels : labels[j] = l => j <= i) - 1]

\* Series.map(label_indices)
MapLabel(indices, l) == IF l \in DOMAIN indices THEN indices[l] ELSE NaN

\* Variant: the two label lists concatenated the other way round.
all_labels_genders_first(activity_labels, gender_labels) ==
    gender_labels \o activity_labels

\* all_labels = activity_labels + gender_labels
all_labels(activity_labels, gender_labels) == activity_labels \o gender_labels

sankey_figure(t, level, observed) ==
    LET sankey_data == sankey_summary(WithIntensity(t, level), observed)
        activity_labels == Unique(Column(sankey_data, "activity_type"))
        gender_labels == Unique(Column(sankey_data, "gender"))
        labels == all_labels(activity_labels, gender_labels)
        indices == label_indices(labels)
    IN  [label |-> labels,
         link |-> [i \in DOMAIN sankey_data |->
                      [activity_type |-> sankey_data[i].activity_type,
                       gender |-> sankey_data[i].gender,
                       source |-> MapLabel(indices, sankey_data[i].activity_type),
                       target |-> MapLabel(indices, sankey_data[i].gender),
                       value |-> sankey_data[i].calories_burned]]]

\* Step 7: groupby(["age_category", "activity_type"]) with the mean.
AgeLevels(t) ==
    SelectSeq(AgeLexOrder, LAMBDA a : \E i \in DOMAIN t : t[i].age_category = a)

AgeActivityRows(t, age, a) ==
    {i \in DOMAIN t : t[i].age_category = age /\ t[i].activity_type = a}

AgeActivityKeys(t, observed) ==
    IF observed
    THEN SelectSeq(Product(AgeLexOrder, activity_order),
                   LAMBDA k : AgeActivityRows(t, k[1], k[2]) # {})
    ELSE Product(AgeLevels(t), activity_order)

age_activity_stats(t, level, observed) ==
    LET f == WithIntensity(t, level)
        keys == AgeActivityKeys(f, observed)
    IN  [k \in DOMAIN keys |->
            [age_category |-> keys[k][1], activity_type |-> keys[k][2],
             avg_calories_burned |->
                 MeanCalories(f, AgeActivityRows(f, keys[k][1], keys[k][2]))]]

-----------------------------------------------------------------------------
(* The script run.  Streamlit executes the script top to bottom; pc names   *)
(* the last statement group executed in the current run.                    *)

Rec(a, g, i, age, d, c) ==
    [activity_type |-> a, gender |-> g, intensity |-> i, age_category |-> age,
     duration_minutes |-> d, calories_burned |-> c]

ExampleFile ==
    <<Rec("Running", "M", "High", "Adult", 30, 300),
      Rec("Running", "F", "High", "Adult", 25, 260),
      Rec("Yoga", "F", "Low", "Senior", 40, 150)>>

SessionFiles ==
    {<<>>,
     ExampleFile,
     ExampleFile \o <<Rec("Zumba", "Other", "Medium", "Senior", 20, 90),
                      Rec("Cycling", "M", "Medium", "Adult", 60, 150)>>}

NoFigure == <<>>
Figure(data) == <<data>>

figs == <<fig_line, fig_dual_line, fig_bar, fig_scatter, fig_sankey, fig_age_activity>>
widgets == <<gender, intensity_sankey, intensity_age>>

\* A widget's first option is its value until the user picks another one.
WidgetDefaults ==
    /\ gender' = GenderOptions[1]
    /\ intensity_sankey' = IntensityOptions[1]
    /\ intensity_age' = IntensityOptions[1]

InitSession(files, page) ==
    /\ file \in files
    /\ observed_default \in BOOLEAN
    /\ cache = <<>>
    /\ fileReads = 0
    /\ df = <<>>
    /\ pc = "start"
    /\ selected = page
    /\ gender = GenderOptions[1]
    /\ intensity_sankey = IntensityOptions[1]
    /\ intensity_age = IntensityOptions[1]
    /\ trigger = "none"
    /\ fig_line = NoFigure
    /\ fig_dual_line = NoFigure
    /\ fig_bar = NoFigure
    /\ fig_scatter = NoFigure
    /\ fig_sankey = NoFigure
    /\ fig_age_activity = NoFigure

\* option_menu(default_index=0): the session opens on the first page.
Init == InitSession(SessionFiles, PageOptions[1])

\* Variant: load_data without the cache decorator.
CacheNeverHit == FALSE

\* @st.cache_data: the function body runs only when the cache holds no entry.
CacheHit == cache # <<>>

\* df = load_data()
LoadData ==
    /\ pc = "start"
    /\ IF CacheHit
       THEN /\ df' = cache[1]
            /\ UNCHANGED <<cache, fileReads>>
       ELSE /\ fileReads' = fileReads + 1
            /\ cache' = <<load_data_body(file)>>
            /\ df' = load_data_body(file)
    /\ pc' = "loaded"
    /\ UNCHANGED <<file, observed_default, selected, widgets, trigger, figs>>

\* df["activity_type"] = pd.Categorical(...); selected = streamlit_menu()
SetCategorical ==
    /\ pc = "loaded"
    /\ df' = SetCategories(df)
    /\ pc' = "menu"
    /\ UNCHANGED <<file, observed_default, cache, fileReads, selected, widgets,
                   trigger, figs>>

\* if selected == "Home": the page shows no chart and creates no filter widget,
\* so the charts of the other page go and the widgets' states are dropped.
RenderHome ==
    /\ pc = "menu"
    /\ selected = "Home"
    /\ pc' = "home"
    /\ fig_line' = NoFigure
    /\ fig_dual_line' = NoFigure
    /\ fig_bar' = NoFigure
    /\ fig_scatter' = NoFigure
    /\ fig_sankey' = NoFigure
    /\ fig_age_activity' = NoFigure
    /\ WidgetDefaults
    /\ UNCHANGED <<file, observed_default, cache, fileReads, df, selected, trigger>>

Step1 ==
    /\ pc = "menu"
    /\ selected = "Explore Data"
    /\ fig_line' = Figure(activity_frequency_step1(df))
    /\ pc' = "step1"
    /\ UNCHANGED <<file, observed_default, cache, fileReads, df, selected, widgets,
                   trigger, fig_dual_line, fig_bar, fig_scatter, fig_sankey,
                   fig_age_activity>>

Step2 ==
    /\ pc = "step1"
    /\ fig_dual_line' = Figure(frequency_by_gender(df, observed_default))
    /\ pc' = "step2"
    /\ UNCHANGED <<file, observed_default, cache, fileReads, df, selected, widgets,
                   trigger, fig_line, fig_bar, fig_scatter, fig_sankey,
                   fig_age_activity>>

Step3 ==
    /\ pc = "step2"
    /\ fig_bar' = Figure(top_activities(df))
    /\ pc' = "step3"
    /\ UNCHANGED <<file, observed_default, cache, fileReads, df, selected, widgets,
                   trigger, fig_line, fig_dual_line, fig_scatter, fig_sankey,
                   fig_age_activity>>

Step5 ==
    /\ pc = "step3"
    /\ fig_scatter' = Figure(scatter_view(df, gender))
    /\ pc' = "step5"
    /\ UNCHANGED <<file, observed_default, cache, fileReads, df, selected, widgets,
                   trigger, fig_line, fig_dual_line, fig_bar, fig_sankey,
                   fig_age_activity>>

Step6 ==
    /\ pc = "step5"
    /\ fig_sankey' = Figure(sankey_figure(df, intensity_sankey, observed_default))
    /\ pc' = "step6"
    /\ UNCHANGED <<file, observed_default, cache, fileReads, df, selected, widgets,
                   trigger, fig_line, fig_dual_line, fig_bar, fig_scatter,
                   fig_age_activity>>

\* Variant: the second selectbox sharing the first one's state.
SankeySelectboxValue == intensity_sankey

\* The value the second selectbox returns is the one stored under its key.
AgeSelectboxValue == intensity_age

Step7 ==
    /\ pc = "step6"
    /\ fig_age_activity' =
           Figure(age_activity_stats(df, AgeSelectboxValue, observed_default))
    /\ pc' = "step7"
    /\ UNCHANGED <<file, observed_default, cache, fileReads, df, selected, widgets,
                   trigger, fig_line, fig_dual_line, fig_bar, fig_scatter,
                   fig_sankey>>

\* An interaction stores the widget's new value and reruns the script from the
\* top with fresh script variables; what the page shows stays until redrawn.
RunComplete == pc \in {"home", "step7"}

Rerun(why) ==
    /\ pc' = "start"
    /\ df' = <<>>
    /\ trigger' = why
    /\ UNCHANGED <<file, observed_default, cache, fileReads, figs>>

SelectPage ==
    \E p \in Range(PageOptions) :
        /\ RunComplete
        /\ p # selected
        /\ selected' = p
        /\ UNCHANGED widgets
        /\ Rerun("page")

SelectGender ==
    \E g \in Range(GenderOptions) :
        /\ pc = "step7"
        /\ g # gender
        /\ gender' = g
        /\ UNCHANGED <<selected, intensity_sankey, intensity_age>>
        /\ Rerun("gender")

SelectIntensitySankey ==
    \E level \in Range(IntensityOptions) :
        /\ pc = "step7"
        /\ level # intensity_sankey
        /\ intensity_sankey' = level
        /\ UNCHANGED <<selected, gender, intensity_age>>
        /\ Rerun("intensity_sankey")

SelectIntensityAge ==
    \E level \in Range(IntensityOptions) :
        /\ pc = "step7"
        /\ level # intensity_age
        /\ intensity_age' = level
        /\ UNCHANGED <<selected, gender, intensity_sankey>>
        /\ Rerun("intensity_age")

Next ==
    \/ LoadData
    \/ SetCategorical
    \/ RenderHome
    \/ Step1
    \/ Step2
    \/ Step3
    \/ Step5
    \/ Step6
    \/ Step7
    \/ SelectPage
    \/ SelectGender
    \/ SelectIntensitySankey
    \/ SelectIntensityAge

Spec == Init /\ [][Next]_vars

-----------------------------------------------------------------------------
(* The derivations one at a time, over every file of at most MaxRows rows:  *)
(* once the base table is built, any one step is evaluated for any value of *)
(* its filter parameter, and the page shows that step's result alone.       *)

InitPipeline == InitSession(Files, "Explore Data")

Evaluate(step) ==
    /\ pc = "menu"
    /\ selected = "Explore Data"
    /\ pc' = step
    /\ UNCHANGED <<file, observed_default, cache, fileReads, df, selected, trigger>>

EvalStep1 ==
    /\ Evaluate("step1")
    /\ WidgetDefaults
    /\ fig_line' = Figure(activity_frequency_step1(df))
    /\ fig_dual_line' = NoFigure
    /\ fig_bar' = NoFigure
    /\ fig_scatter' = NoFigure
    /\ fig_sankey' = NoFigure
    /\ fig_age_activity' = NoFigure

EvalStep2 ==
    /\ Evaluate("step2")
    /\ WidgetDefaults
    /\ fig_line' = NoFigure
    /\ fig_dual_line' = Figure(frequency_by_gender(df, observed_default))
    /\ fig_bar' = NoFigure
    /\ fig_scatter' = NoFigure
    /\ fig_sankey' = NoFigure
    /\ fig_age_activity' = NoFigure

EvalStep3 ==
    /\ Evaluate("step3")
    /\ WidgetDefaults
    /\ fig_line' = NoFigure
    /\ fig_dual_line' = NoFigure
    /\ fig_bar' = Figure(top_activities(df))
    /\ fig_scatter' = NoFigure
    /\ fig_sankey' = NoFigure
    /\ fig_age_activity' = NoFigure

EvalStep5 ==
    \E g \in Range(GenderOptions) :
        /\ Evaluate("step5")
        /\ gender' = g
        /\ intensity_sankey' = IntensityOptions[1]
        /\ intensity_age' = IntensityOptions[1]
        /\ fig_line' = NoFigure
        /\ fig_dual_line' = NoFigure
        /\ fig_bar' = NoFigure
        /\ fig_scatter' = Figure(scatter_view(df, g))
        /\ fig_sankey' = NoFigure
        /\ fig_age_activity' = NoFigure

EvalStep6 ==
    \E level \in Range(IntensityOptions) :
        /\ Evaluate("step6")
        /\ gender' = GenderOptions[1]
        /\ intensity_sankey' = level
        /\ intensity_age' = IntensityOptions[1]
        /\ fig_line' = NoFigure
        /\ fig_dual_line' = NoFigure
        /\ fig_bar' = NoFigure
        /\ fig_scatter' = NoFigure
        /\ fig_sankey' = Figure(sankey_figure(df, level, observed_default))
        /\ fig_age_activity' = NoFigure

EvalStep7 ==
    \E level \in Range(IntensityOptions) :
        /\ Evaluate("step7")
        /\ gender' = GenderOptions[1]
        /\ intensity_sankey' = IntensityOptions[1]
        /\ intensity_age' = level
        /\ fig_line' = NoFigure
        /\ fig_dual_line' = NoFigure
        /\ fig_bar' = NoFigure
        /\ fig_scatter' = NoFigure
        /\ fig_sankey' = NoFigure
        /\ fig_age_activity' = Figure(age_activity_stats(df, level, observed_default))

NextPipeline ==
    \/ LoadData
    \/ SetCategorical
    \/ EvalStep1
    \/ EvalStep2
    \/ EvalStep3
    \/ EvalStep5
    \/ EvalStep6
    \/ EvalStep7

SpecPipeline == InitPipeline /\ [][NextPipeline]_vars

-----------------------------------------------------------------------------
(* Properties.                                                              *)

Rendered(fig) == fig # NoFigure
FirstAt(col, x) == CHOOSE i \in DOMAIN col : col[i] = x /\ \A j \in 1..(i - 1) : col[j] # x
InFirstOccurrenceOrder(labels, col) ==
    \A p, q \in DOMAIN labels : p < q => FirstAt(col, labels[p]) < FirstAt(col, labels[q])

\* C1: in every Sankey figure, with N distinct activity labels and M distinct
\* gender labels in the summary, the node labels are the N activity labels at
\* indices [0, N) followed by the M gender labels at [N, N+M), each group in
\* order of first occurrence in the summary, and every link has its source in
\* [0, N) and its target in [N, N+M), each naming the link's own label.
C1_SankeyLabelIndices ==
    Rendered(fig_sankey) =>
        LET label == fig_sankey[1].label
            link == fig_sankey[1].link
            acts == Column(link, "activity_type")
            gens == Column(link, "gender")
            N == Cardinality(Range(acts))
            M == Cardinality(Range(gens))
        IN  /\ Len(label) = N + M
            /\ {label[k] : k \in 1..N} = Range(acts)
            /\ {label[k] : k \in (N + 1)..(N + M)} = Range(gens)
            /\ InFirstOccurrenceOrder(SubSeq(label, 1, N), acts)
            /\ InFirstOccurrenceOrder(SubSeq(label, N + 1, N + M), gens)
            /\ \A i \in DOMAIN link :
                   /\ link[i].source \in 0..(N - 1)
                   /\ link[i].target \in N..(N + M - 1)
                   /\ label[link[i].source + 1] = link[i].activity_type
                   /\ label[link[i].target + 1] = link[i].gender

\* A figure with two activity nodes and two gender nodes whose first gender
\* node is not the alphabetically first one.
C1_Witness ==
    /\ Rendered(fig_sankey)
    /\ Cardinality({fig_sankey[1].link[i].activity_type :
                       i \in DOMAIN fig_sankey[1].link}) = 2
    /\ Len(fig_sankey[1].label) = 4
    /\ fig_sankey[1].label[3] = "Male"

\* C3: the step 1 table has exactly one row (a, k) for each activity type a of
\* the base table, k being the number of its records, and no row of frequency 0.
C3_ActivityFrequency ==
    Rendered(fig_line) =>
        LET rows == fig_line[1]
            acts == {df[i].activity_type : i \in DOMAIN df} \ {NaN}
        IN  /\ \A r \in DOMAIN rows : rows[r].frequency # 0
            /\ \A a \in acts :
                   Cardinality({r \in DOMAIN rows : rows[r].activity_type = a}) = 1
            /\ \A r \in DOMAIN rows :
                   /\ rows[r].activity_type \in acts
                   /\ rows[r].frequency =
                          Cardinality({i \in DOMAIN df :
                                          df[i].activity_type = rows[r].activity_type})

C3_Witness ==
    /\ Rendered(fig_line)
    /\ Len(fig_line[1]) = 2

\* C5: step 5 shows the warning, with no rows, exactly when no record of the
\* base table has the selected gender; otherwise it shows the scatter of the
\* matching records.
C5_ScatterEmptySignal ==
    Rendered(fig_scatter) =>
        LET view == fig_scatter[1]
            match == {i \in DOMAIN df : df[i].gender = gender}
        IN  /\ match = {} => view.kind = "warning" /\ view.rows = <<>>
            /\ match # {} =>
                   /\ view.kind = "plotly_chart"
                   /\ Len(view.rows) = Cardinality(match)
                   /\ \A k \in DOMAIN view.rows : view.rows[k].gender = gender

C5_Witness ==
    /\ Rendered(fig_scatter)
    /\ fig_scatter[1].kind = "warning"
    /\ df # <<>>

\* C2 as stated: every gender cell of the loaded table is "Male" or "Female".
C2_GenderOnlyMaleFemale ==
    /\ \A i \in DOMAIN df : df[i].gender \in {"Male", "Female"}
    /\ \A k \in DOMAIN cache : \A i \in DOMAIN cache[k] :
           cache[k][i].gender \in {"Male", "Female"}

\* C2, amended: every gender cell of the loaded table is "Male", "Female" or
\* missing (NaN); no other label survives the load.
C2_GenderMaleFemaleOrMissing ==
    /\ \A i \in DOMAIN df : df[i].gender \in {"Male", "Female", NaN}
    /\ \A k \in DOMAIN cache : \A i \in DOMAIN cache[k] :
           cache[k][i].gender \in {"Male", "Female", NaN}

C2_Witness ==
    /\ pc = "loaded"
    /\ \E i, j \in DOMAIN df : df[i].gender = NaN /\ df[j].gender = "Male"

\* C6 as stated: "F" loads as "Female", "M" as "Male", and any other input
\* gender loads unchanged.
C6_OtherGendersPassThrough ==
    pc # "start" =>
        /\ Len(df) = Len(file)
        /\ \A i \in DOMAIN file :
               df[i].gender = IF file[i].gender = "F" THEN "Female"
                              ELSE IF file[i].gender = "M" THEN "Male"
                              ELSE file[i].gender

\* C6, amended: "F" loads as "Female", "M" as "Male", and any other input
\* gender loads as a missing value (NaN).
C6_OtherGendersBecomeMissing ==
    pc # "start" =>
        /\ Len(df) = Len(file)
        /\ \A i \in DOMAIN file :
               /\ file[i].gender = "F" => df[i].gender = "Female"
               /\ file[i].gender = "M" => df[i].gender = "Male"
               /\ file[i].gender \notin {"F", "M"} => df[i].gender = NaN

C6_Witness ==
    /\ pc = "menu"
    /\ \E i, j \in DOMAIN file :
           /\ file[i].gender = "Other" /\ df[i].gender = NaN
           /\ file[j].gender = "F" /\ df[j].gender = "Female"

\* C4 as stated: the step 3 rows are strictly descending by mean calories and
\* none has an undefined mean.
C4_StrictlyDescending ==
    Rendered(fig_bar) =>
        LET rows == fig_bar[1]
        IN  /\ \A r \in DOMAIN rows :
                   /\ ~IsNaNMean(rows[r].avg_calories_burned)
                   /\ ~IsNaNMean(rows[r].avg_duration)
            /\ \A r \in 1..(Len(rows) - 1) :
                   MeanGreater(rows[r].avg_calories_burned,
                               rows[r + 1].avg_calories_burned)

\* C4, amended: the step 3 rows are in descending order of mean calories, rows
\* of equal mean being adjacent (no row's mean is smaller than the next row's),
\* and none has an undefined mean.
C4_Descending ==
    Rendered(fig_bar) =>
        LET rows == fig_bar[1]
        IN  /\ \A r \in DOMAIN rows :
                   /\ ~IsNaNMean(rows[r].avg_calories_burned)
                   /\ ~IsNaNMean(rows[r].avg_duration)
            /\ \A r \in 1..(Len(rows) - 1) :
                   ~MeanGreater(rows[r + 1].avg_calories_burned,
                                rows[r].avg_calories_burned)

\* Two activities with different means, ranked.
C4_Witness ==
    /\ Rendered(fig_bar)
    /\ Len(fig_bar[1]) = 2
    /\ MeanGreater(fig_bar[1][1].avg_calories_burned, fig_bar[1][2].avg_calories_burned)
    /\ fig_bar[1][1].activity_type = "Cycling"

\* C7: the step 2 table has a row (a, g, k) only for the (activity_type,
\* gender) combinations of at least one record, k being the number of such
\* records; no row has frequency 0.
C7_NoZeroFrequencyRows ==
    Rendered(fig_dual_line) =>
        LET rows == fig_dual_line[1]
            count(a, g) ==
                Cardinality({i \in DOMAIN df :
                                df[i].activity_type = a /\ df[i].gender = g})
        IN  \A r \in DOMAIN rows :
                /\ rows[r].frequency = count(rows[r].activity_type, rows[r].gender)
                /\ rows[r].frequency >= 1

\* C10: every Sankey link is for an (activity_type, gender) pair with at least
\* one record of the selected intensity, its weight is the defined mean of
\* calories_burned over exactly those records, and every activity node label
\* is the activity of some record of the selected intensity.
C10_LinksOnlyForObservedPairs ==
    Rendered(fig_sankey) =>
        LET label == fig_sankey[1].label
            link == fig_sankey[1].link
            rowsOf(a, g) ==
                {i \in DOMAIN df : /\ df[i].intensity = intensity_sankey
                                    /\ df[i].activity_type = a
                                    /\ df[i].gender = g}
            filteredActivities ==
                {df[i].activity_type :
                    i \in {j \in DOMAIN df : df[j].intensity = intensity_sankey}}
        IN  /\ \A i \in DOMAIN link :
                   /\ rowsOf(link[i].activity_type, link[i].gender) # {}
                   /\ ~IsNaNMean(link[i].value)
                   /\ link[i].value =
                          MeanCalories(df, rowsOf(link[i].activity_type, link[i].gender))
            /\ \A k \in DOMAIN label :
                   label[k] \in Range(activity_order) => label[k] \in filteredActivities

AnyFigureRendered == \E k \in DOMAIN figs : Rendered(figs[k])

\* C8: in a session the file is read at most once; the first load_data call
\* reads it and fills the cache, every later call returns the cached table
\* without reading, and nothing is drawn before the first load.
C8_FileReadAtMostOnce ==
    /\ fileReads <= 1
    /\ (pc = "start" /\ trigger = "none") => fileReads = 0 /\ cache = <<>>
    /\ (pc # "start" \/ trigger # "none") =>
           fileReads = 1 /\ cache = <<load_data_body(file)>>
    /\ pc = "loaded" => df = cache[1]
    /\ AnyFigureRendered => fileReads = 1

\* A later run, started by a selector, has just been served from the cache.
C8_Witness ==
    /\ pc = "loaded"
    /\ trigger = "intensity_sankey"
    /\ fileReads = 1
    /\ df # <<>>

\* C9: after a complete run of the Explore page the Sankey figure is the step 6
\* result for the first selector's value and the grouped bar figure the step 7
\* result for the second selector's value; changing one selector leaves the
\* other selector's value unchanged, and the run it starts redraws every other
\* figure unchanged.
C9_SelectorsIndependent ==
    /\ [](pc = "step7" =>
            /\ fig_sankey =
                   Figure(sankey_figure(df, intensity_sankey, observed_default))
            /\ fig_age_activity =
                   Figure(age_activity_stats(df, intensity_age, observed_default)))
    /\ [][intensity_sankey' # intensity_sankey /\ pc = "step7" =>
              intensity_age' = intensity_age /\ trigger' = "intensity_sankey"]_vars
    /\ [][intensity_age' # intensity_age /\ pc = "step7" =>
              intensity_sankey' = intensity_sankey /\ trigger' = "intensity_age"]_vars
    /\ [][trigger = "intensity_sankey" /\ trigger' = trigger =>
              /\ intensity_age' = intensity_age
              /\ <<fig_line, fig_dual_line, fig_bar, fig_scatter, fig_age_activity>>' =
                     <<fig_line, fig_dual_line, fig_bar, fig_scatter, fig_age_activity>>]_vars
    /\ [][trigger = "intensity_age" /\ trigger' = trigger =>
              /\ intensity_sankey' = intensity_sankey
              /\ <<fig_line, fig_dual_line, fig_bar, fig_scatter, fig_sankey>>' =
                     <<fig_line, fig_dual_line, fig_bar, fig_scatter, fig_sankey>>]_vars

\* The run started by a change of the first selector is complete, the two
\* selectors differ, and so do the results for their two values.
C9_Witness ==
    /\ pc = "step7"
    /\ trigger = "intensity_sankey"
    /\ intensity_sankey # intensity_age
    /\ fig_sankey[1].link # <<>>
    /\ fig_age_activity #
           Figure(age_activity_stats(df, intensity_sankey, observed_default))

====
